---- MODULE Spec2Model ----
(***************************************************************************)
(* Asset inventory application (Django): the asset store and its number    *)
(* generation, the request/approval workflow and stock-take                *)
(* reconciliation, as state machines over the database rows.               *)
(*                                                                         *)
(* Strings whose characters matter (department names, categories,          *)
(* asset numbers) are sequences of character codes, so that slicing,       *)
(* upper-casing, formatting, splitting, parsing and the database's         *)
(* lexicographic ORDER BY are computed as the code computes them.          *)
(***************************************************************************)
EXTENDS Integers, Sequences, FiniteSets, TLC

VARIABLES
    assets,        \* Asset table: pk -> row
    nextAssetPk,   \* auto-increment primary key of Asset
    requests,      \* AssetRequest table: pk -> row
    nextRequestPk, \* auto-increment primary key of AssetRequest
    stock_takes,   \* StockTake table: pk -> row
    items,         \* StockTakeItem table: pk -> row
    nextStockTakePk, \* auto-increment primary key of StockTake
    nextItemPk,    \* auto-increment primary key of StockTakeItem
    proc,          \* per worker: the view it is executing and its local objects
    response       \* what the last finished handler answered

vars == <<assets, nextAssetPk, requests, nextRequestPk, stock_takes, items,
          nextStockTakePk, nextItemPk, nextStockTakePk, nextItemPk, proc, response>>

----------------------------------------------------------------------------
(* Bounds of the model *)

MaxAssets == 3
MaxRequests == 2
MaxStockTakes == 1
MaxQuantity == 2

Procs == {1, 2}
Users == {"alice", "bob"}

\* the values timezone.now() takes
Times == {1, 2}

\* Python None / SQL NULL, for the fields that hold names
None == "None"

\* a nullable DateTimeField: NULL, or the time t
NoDate == <<>>
At(t) == <<t>>

\* a nullable BooleanField: None (NULL), or one of these
True == "True"
False == "False"

----------------------------------------------------------------------------
(* Strings as sequences of character codes *)

\* Department.name of the departments of the model: "Finance", "Fintech", "IT"
Departments == {"Finance", "Fintech", "IT"}

DepartmentName(d) ==
    CASE d = "Finance" -> <<70, 105, 110, 97, 110, 99, 101>>
      [] d = "Fintech" -> <<70, 105, 110, 116, 101, 99, 104>>
      [] d = "IT"      -> <<73, 84>>

\* the CATEGORY_CHOICES keys the model draws from: "technology", "furniture"
Categories == {"technology", "furniture"}

CategoryKey(c) ==
    CASE c = "technology" -> <<116, 101, 99, 104, 110, 111, 108, 111, 103, 121>>
      [] c = "furniture"  -> <<102, 117, 114, 110, 105, 116, 117, 114, 101>>

StatusChoices == {"available", "in_use", "maintenance", "retired"}

\* "-KOTDA-"
KotdaTag == <<45, 75, 79, 84, 68, 65, 45>>

\* "-"
Dash == <<45>>

\* 'TEMP-ASSET-0000'
DefaultAssetNo == <<84, 69, 77, 80, 45, 65, 83, 83, 69, 84, 45, 48, 48, 48, 48>>

\* str.upper() on ASCII
Upper(s) == [i \in 1..Len(s) |-> IF s[i] >= 97 /\ s[i] <= 122 THEN s[i] - 32 ELSE s[i]]

\* s[:3]
Prefix3(s) == SubSeq(s, 1, IF Len(s) < 3 THEN Len(s) ELSE 3)

RECURSIVE Decimal(_)
\* str(n) for n >= 0
Decimal(n) == IF n < 10 THEN <<48 + n>> ELSE Decimal(n \div 10) \o <<48 + (n % 10)>>

RECURSIVE ZeroPad(_, _)
ZeroPad(s, width) == IF Len(s) >= width THEN s ELSE ZeroPad(<<48>> \o s, width)

\* f"{n:04d}"
Format04d(n) == ZeroPad(Decimal(n), 4)

RECURSIVE LastDash(_, _)
\* index of the last "-" of s at or before i, 0 when there is none
LastDash(s, i) == IF i = 0 THEN 0 ELSE IF s[i] = 45 THEN i ELSE LastDash(s, i - 1)

\* s.split('-')[-1]
SplitLast(s) == SubSeq(s, LastDash(s, Len(s)) + 1, Len(s))

IsDigits(s) == Len(s) > 0 /\ \A i \in 1..Len(s) : s[i] >= 48 /\ s[i] <= 57

RECURSIVE DigitsValue(_)
DigitsValue(s) ==
    IF Len(s) = 0 THEN 0 ELSE 10 * DigitsValue(SubSeq(s, 1, Len(s) - 1)) + (s[Len(s)] - 48)

RECURSIVE LexLess(_, _)
\* a < b in the database's ordering of strings (code point order)
LexLess(a, b) ==
    IF Len(b) = 0 THEN FALSE
    ELSE IF Len(a) = 0 THEN TRUE
    ELSE IF a[1] # b[1] THEN a[1] < b[1]
    ELSE LexLess(Tail(a), Tail(b))

----------------------------------------------------------------------------
(* The Asset table *)

\* Asset rows of department d and category c
Partition(store, d, c) ==
    {pk \in DOMAIN store : store[pk].department = d /\ store[pk].category = c}

\* Asset.objects.filter(department=d, category=c).order_by('-asset_no').first(),
\* for a partition that is not empty
LastAsset(store, d, c) ==
    LET S == Partition(store, d, c) IN
    CHOOSE pk \in S : \A q \in S : ~LexLess(store[pk].asset_no, store[q].asset_no)

\* int(last_asset.asset_no.split('-')[-1]) + 1, and 1 when there is no last
\* asset, its asset_no is empty or the segment is no integer
NewNumber(store, d, c) ==
    IF Partition(store, d, c) # {} /\ store[LastAsset(store, d, c)].asset_no # <<>>
    THEN LET seg == SplitLast(store[LastAsset(store, d, c)].asset_no) IN
         IF IsDigits(seg) THEN DigitsValue(seg) + 1 ELSE 1
    ELSE 1

\* Asset.objects.filter(asset_no=no).exists()
AssetNoExists(store, no) == \E pk \in DOMAIN store : store[pk].asset_no = no

\* asset_create: f"{dept_prefix}-{cat_prefix}-KOTDA-{new_number:04d}"
ViewAssetNo(d, c, n) ==
    Upper(Prefix3(DepartmentName(d))) \o Dash \o Upper(Prefix3(CategoryKey(c)))
        \o KotdaTag \o Format04d(n)

\* generate_asset_number: f"{self.department.name}-{self.category}-KOTDA-{new_number:04d}"
ModelAssetNo(d, c, n) ==
    DepartmentName(d) \o Dash \o CategoryKey(c) \o KotdaTag \o Format04d(n)

NoUniqueViolation(store, pk, row) == FALSE

\* unique=True on asset_no: writing row under pk would duplicate another row's asset_no
UniqueViolation(store, pk, row) ==
    \E q \in DOMAIN store : q # pk /\ store[q].asset_no = row.asset_no

\* Model.save(): UPDATE the row of this pk, INSERT it when there is none
Upsert(table, pk, row) ==
    [q \in DOMAIN table \cup {pk} |-> IF q = pk THEN row ELSE table[q]]

\* the table without the rows of the pks in S
Without(table, S) == [q \in DOMAIN table \ S |-> table[q]]

Idle == [pc |-> "idle"]

----------------------------------------------------------------------------
(* Asset.generate_asset_number *)

max_attempts == 10

RECURSIVE GenerateAttempts(_, _, _)
\* the while loop: every attempt reads the last asset again and computes the
\* candidate from it; a taken candidate only counts the attempt
GenerateAttempts(store, self, attempt) ==
    IF attempt < max_attempts
    THEN LET new_number == NewNumber(store, self.department, self.category)
             asset_no == ModelAssetNo(self.department, self.category, new_number)
         IN  IF ~AssetNoExists(store, asset_no)
             THEN [ok |-> TRUE, asset_no |-> asset_no]
             ELSE GenerateAttempts(store, self, attempt + 1)
    ELSE [ok |-> FALSE, error |-> "ValueError: could not generate a unique asset number"]

generate_asset_number(store, self) ==
    IF self.department = None \/ self.category = None
    THEN [ok |-> FALSE, error |-> "ValueError: department and category are required"]
    ELSE GenerateAttempts(store, self, 0)

\* an Asset instance as the form or the model's defaults build it
NewAsset(d, c, s, u) ==
    [asset_no |-> DefaultAssetNo, department |-> d, category |-> c,
     status |-> s, assigned_to |-> u]

----------------------------------------------------------------------------
(* asset_create, asset_update, asset_delete *)

\* workers inside asset_create
Creating == {p \in Procs : proc[p].pc \in {"ac_verify", "ac_save"}}

AssetCreateInvalidSaves(d, c) ==
    /\ d = None \/ c = None
    /\ nextAssetPk + Cardinality(Creating) <= MaxAssets
    /\ assets' = Upsert(assets, nextAssetPk, NewAsset(d, c, "available", None))
    /\ nextAssetPk' = nextAssetPk + 1
    /\ response' = [op |-> "asset_create", result |-> "created",
                    department |-> d, category |-> c]
    /\ UNCHANGED <<requests, nextRequestPk, stock_takes, items, nextStockTakePk,
                   nextItemPk, proc>>

\* asset_create, POST without department or category: the form is not valid
\* (both fields are required), its errors are reported and nothing is saved
AssetCreateInvalid(d, c) ==
    /\ d = None \/ c = None
    /\ response' = [op |-> "asset_create", result |-> "required_field_error",
                    department |-> d, category |-> c]
    /\ UNCHANGED <<assets, nextAssetPk, requests, nextRequestPk, stock_takes, items,
                   nextStockTakePk, nextItemPk, proc>>

\* asset_create, valid POST, up to the first candidate number
AssetCreateBegin(p, d, c, s, u) ==
    /\ proc[p].pc = "idle"
    /\ d # None /\ c # None
    /\ nextAssetPk + Cardinality(Creating) <= MaxAssets
    /\ LET new_number == NewNumber(assets, d, c) IN
       proc' = [proc EXCEPT ![p] =
                   [pc |-> "ac_verify",
                    asset |-> [NewAsset(d, c, s, u) EXCEPT
                                  !.asset_no = ViewAssetNo(d, c, new_number)],
                    new_number |-> new_number]]
    /\ UNCHANGED <<assets, nextAssetPk, requests, nextRequestPk, stock_takes, items,
                   nextStockTakePk, nextItemPk, response>>

AssetCreateVerifySkipped(p) ==
    /\ proc[p].pc = "ac_verify"
    /\ proc' = [proc EXCEPT ![p].pc = "ac_save"]
    /\ UNCHANGED <<assets, nextAssetPk, requests, nextRequestPk, stock_takes, items,
                   nextStockTakePk, nextItemPk, response>>

\* one test of `while Asset.objects.filter(asset_no=asset.asset_no).exists()`
AssetCreateVerify(p) ==
    /\ proc[p].pc = "ac_verify"
    /\ LET a == proc[p].asset
           n == proc[p].new_number
       IN  IF AssetNoExists(assets, a.asset_no)
           THEN proc' = [proc EXCEPT ![p] =
                   [pc |-> "ac_verify",
                    asset |-> [a EXCEPT !.asset_no =
                                  ViewAssetNo(a.department, a.category, n + 1)],
                    new_number |-> n + 1]]
           ELSE proc' = [proc EXCEPT ![p].pc = "ac_save"]
    /\ UNCHANGED <<assets, nextAssetPk, requests, nextRequestPk, stock_takes, items,
                   nextStockTakePk, nextItemPk, response>>

AssetCreateSaveUnchecked(p) ==
    /\ proc[p].pc = "ac_save"
    /\ assets' = Upsert(assets, nextAssetPk, proc[p].asset)
    /\ nextAssetPk' = nextAssetPk + 1
    /\ response' = [op |-> "asset_create", result |-> "created",
                    department |-> proc[p].asset.department,
                    category |-> proc[p].asset.category]
    /\ proc' = [proc EXCEPT ![p] = Idle]
    /\ UNCHANGED <<requests, nextRequestPk, stock_takes, items, nextStockTakePk,
                   nextItemPk>>

\* asset.save() and the end of the atomic block; IntegrityError is caught and reported
AssetCreateSave(p) ==
    /\ proc[p].pc = "ac_save"
    /\ IF UniqueViolation(assets, nextAssetPk, proc[p].asset)
       THEN /\ response' = [op |-> "asset_create", result |-> "IntegrityError",
                            department |-> proc[p].asset.department,
                            category |-> proc[p].asset.category]
            /\ UNCHANGED <<assets, nextAssetPk>>
       ELSE /\ assets' = Upsert(assets, nextAssetPk, proc[p].asset)
            /\ nextAssetPk' = nextAssetPk + 1
            /\ response' = [op |-> "asset_create", result |-> "created",
                            department |-> proc[p].asset.department,
                            category |-> proc[p].asset.category]
    /\ proc' = [proc EXCEPT ![p] = Idle]
    /\ UNCHANGED <<requests, nextRequestPk, stock_takes, items, nextStockTakePk,
                   nextItemPk>>

RECURSIVE FirstFree(_, _, _, _)
\* the number the loop `while Asset.objects.filter(asset_no=...).exists()` of
\* asset_create ends with when no other worker writes
FirstFree(store, d, c, n) ==
    IF AssetNoExists(store, ViewAssetNo(d, c, n)) THEN FirstFree(store, d, c, n + 1) ELSE n

\* asset_create, valid POST, run from the first query to the save with no other
\* worker in between
AssetCreate(d, c, s, u) ==
    /\ d # None /\ c # None
    /\ nextAssetPk + Cardinality(Creating) <= MaxAssets
    /\ LET n == FirstFree(assets, d, c, NewNumber(assets, d, c))
           row == [NewAsset(d, c, s, u) EXCEPT !.asset_no = ViewAssetNo(d, c, n)]
       IN  IF UniqueViolation(assets, nextAssetPk, row)
           THEN /\ response' = [op |-> "asset_create", result |-> "IntegrityError",
                                department |-> d, category |-> c]
                /\ UNCHANGED <<assets, nextAssetPk>>
           ELSE /\ assets' = Upsert(assets, nextAssetPk, row)
                /\ nextAssetPk' = nextAssetPk + 1
                /\ response' = [op |-> "asset_create", result |-> "created",
                                department |-> d, category |-> c]
    /\ UNCHANGED <<requests, nextRequestPk, stock_takes, items, nextStockTakePk,
                   nextItemPk, proc>>

\* asset_update: get_object_or_404(Asset, pk=pk)
AssetUpdateLoad(p, pk) ==
    /\ proc[p].pc = "idle"
    /\ pk \in DOMAIN assets
    /\ proc' = [proc EXCEPT ![p] = [pc |-> "au_save", pk |-> pk, asset |-> assets[pk]]]
    /\ UNCHANGED <<assets, nextAssetPk, requests, nextRequestPk, stock_takes, items,
                   nextStockTakePk, nextItemPk, response>>

AssetUpdateSaveRenumbers(p, d, c, s, u) ==
    /\ proc[p].pc = "au_save"
    /\ LET pk == proc[p].pk
           moved == d # proc[p].asset.department \/ c # proc[p].asset.category
           row == [proc[p].asset EXCEPT
                      !.department = d, !.category = c, !.status = s, !.assigned_to = u,
                      !.asset_no = IF moved
                                   THEN ViewAssetNo(d, c,
                                           FirstFree(assets, d, c, NewNumber(assets, d, c)))
                                   ELSE @]
       IN  IF UniqueViolation(assets, pk, row)
           THEN /\ response' = [op |-> "asset_update", result |-> "IntegrityError",
                                pk |-> pk]
                /\ UNCHANGED assets
           ELSE /\ assets' = Upsert(assets, pk, row)
                /\ response' = [op |-> "asset_update", result |-> "updated", pk |-> pk]
    /\ proc' = [proc EXCEPT ![p] = Idle]
    /\ UNCHANGED <<nextAssetPk, requests, nextRequestPk, stock_takes, items, nextStockTakePk,
                   nextItemPk>>

\* asset_update, valid POST: form.save() writes the instance with the form's fields
\* (asset_no is not a field of the form)
AssetUpdateSave(p, d, c, s, u) ==
    /\ proc[p].pc = "au_save"
    /\ LET pk == proc[p].pk
           row == [proc[p].asset EXCEPT !.department = d, !.category = c,
                                        !.status = s, !.assigned_to = u]
       IN  IF UniqueViolation(assets, pk, row)
           THEN /\ response' = [op |-> "asset_update", result |-> "IntegrityError",
                                pk |-> pk]
                /\ UNCHANGED assets
           ELSE /\ assets' = Upsert(assets, pk, row)
                /\ response' = [op |-> "asset_update", result |-> "updated", pk |-> pk]
    /\ proc' = [proc EXCEPT ![p] = Idle]
    /\ UNCHANGED <<nextAssetPk, requests, nextRequestPk, stock_takes, items, nextStockTakePk,
                   nextItemPk>>

\* asset_update, valid POST, run from get_object_or_404 to form.save() with no
\* other worker in between
AssetUpdate(pk, d, c, s, u) ==
    /\ pk \in DOMAIN assets
    /\ assets' = [assets EXCEPT ![pk].department = d, ![pk].category = c,
                                ![pk].status = s, ![pk].assigned_to = u]
    /\ response' = [op |-> "asset_update", result |-> "updated", pk |-> pk]
    /\ UNCHANGED <<nextAssetPk, requests, nextRequestPk, stock_takes, items,
                   nextStockTakePk, nextItemPk, proc>>

\* asset_delete, POST: the asset goes with the requests and stock-take items that
\* reference it (on_delete=CASCADE)
AssetDelete(pk) ==
    /\ pk \in DOMAIN assets
    /\ assets' = Without(assets, {pk})
    /\ requests' = Without(requests, {r \in DOMAIN requests : requests[r].asset = pk})
    /\ items' = Without(items, {i \in DOMAIN items : items[i].asset = pk})
    /\ response' = [op |-> "asset_delete", result |-> "deleted", pk |-> pk]
    /\ UNCHANGED <<nextAssetPk, nextRequestPk, stock_takes, nextStockTakePk, nextItemPk,
                   proc>>

----------------------------------------------------------------------------
(* management command update_asset_numbers *)

Max(S) == CHOOSE x \in S : \A y \in S : y <= x

RECURSIVE HandleLoop(_, _)
\* for asset in assets: the rows are visited newest first (Meta.ordering); an
\* exception of generate_asset_number ends the command, earlier saves stay
HandleLoop(store, todo) ==
    IF todo = {} THEN store
    ELSE LET pk == Max(todo)
             asset == store[pk]
         IN  IF asset.department # None /\ asset.category # None
             THEN LET r == generate_asset_number(store, asset) IN
                  IF r.ok
                  THEN HandleLoop(Upsert(store, pk, [asset EXCEPT !.asset_no = r.asset_no]),
                                  todo \ {pk})
                  ELSE store
             ELSE HandleLoop(store, todo \ {pk})

\* asset_no is a CharField without null=True: the column holds no NULL
AssetNoIsNull(row) == FALSE

\* Command.handle: Asset.objects.filter(asset_no__isnull=True)
UpdateAssetNumbers ==
    /\ assets' = HandleLoop(assets, {pk \in DOMAIN assets : AssetNoIsNull(assets[pk])})
    /\ response' = [op |-> "update_asset_numbers", result |-> "done"]
    /\ UNCHANGED <<nextAssetPk, requests, nextRequestPk, stock_takes, items, nextStockTakePk,
                   nextItemPk, proc>>

\* generate_asset_number on an unsaved Asset of (d, c); a number it returns is
\* stored on the asset and saved, as Command.handle does with it
GenerateAndSave(d, c) ==
    /\ nextAssetPk + Cardinality(Creating) <= MaxAssets
    /\ LET self == NewAsset(d, c, "available", None)
           r == generate_asset_number(assets, self)
       IN  IF r.ok
           THEN /\ assets' = Upsert(assets, nextAssetPk, [self EXCEPT !.asset_no = r.asset_no])
                /\ nextAssetPk' = nextAssetPk + 1
                /\ response' = [op |-> "generate_asset_number", result |-> "number",
                                department |-> d, category |-> c,
                                asset_no |-> r.asset_no]
           ELSE /\ response' = [op |-> "generate_asset_number", result |-> r.error,
                                department |-> d, category |-> c]
                /\ UNCHANGED <<assets, nextAssetPk>>
    /\ UNCHANGED <<requests, nextRequestPk, stock_takes, items, nextStockTakePk,
                   nextItemPk, proc>>

----------------------------------------------------------------------------
(* The request workflow *)

\* the action segment of the process_request URL: any string
Actions == {"approve", "reject", "hold"}

\* request_asset, valid POST: get_object_or_404(Asset), then the new request is
\* saved with the asset and the user; approved and approval_date keep their
\* defaults (NULL)
RequestAsset(user, pk) ==
    /\ pk \in DOMAIN assets
    /\ nextRequestPk <= MaxRequests
    /\ requests' = Upsert(requests, nextRequestPk,
                          [asset |-> pk, user |-> user, approved |-> None,
                           approval_date |-> NoDate])
    /\ nextRequestPk' = nextRequestPk + 1
    /\ response' = [op |-> "request_asset", result |-> "success", pk |-> nextRequestPk]
    /\ UNCHANGED <<assets, nextAssetPk, stock_takes, items, nextStockTakePk,
                   nextItemPk, proc>>

ProcessRequestLoadAlwaysAssigns(p, request_id, action) ==
    /\ proc[p].pc = "idle"
    /\ request_id \in DOMAIN requests
    /\ proc' = [proc EXCEPT ![p] =
           [pc |-> "pr_save_asset", request_id |-> request_id, action |-> action,
            asset_request |-> [requests[request_id] EXCEPT
                                  !.approved = IF action = "approve" THEN True ELSE False]]]
    /\ UNCHANGED <<assets, nextAssetPk, requests, nextRequestPk, stock_takes, items,
                   nextStockTakePk, nextItemPk, response>>

\* process_request: get_object_or_404(AssetRequest, pk=request_id) and the branch
\* on action, which sets approved on the loaded object
ProcessRequestLoad(p, request_id, action) ==
    /\ proc[p].pc = "idle"
    /\ request_id \in DOMAIN requests
    /\ proc' = [proc EXCEPT ![p] =
           [pc |-> IF action = "approve" THEN "pr_save_asset" ELSE "pr_save_request",
            request_id |-> request_id, action |-> action,
            asset_request |-> [requests[request_id] EXCEPT
                                  !.approved = IF action = "approve" THEN True ELSE False]]]
    /\ UNCHANGED <<assets, nextAssetPk, requests, nextRequestPk, stock_takes, items,
                   nextStockTakePk, nextItemPk, response>>

ProcessRequestSaveAssetKeepsFirst(p) ==
    /\ proc[p].pc = "pr_save_asset"
    /\ LET a == proc[p].asset_request.asset IN
       IF a \in DOMAIN assets
       THEN /\ assets' = IF assets[a].assigned_to = None
                         THEN [assets EXCEPT ![a].assigned_to = proc[p].asset_request.user,
                                             ![a].status = "in_use"]
                         ELSE assets
            /\ proc' = [proc EXCEPT ![p].pc = "pr_save_request"]
            /\ UNCHANGED response
       ELSE /\ proc' = [proc EXCEPT ![p] = Idle]
            /\ response' = [op |-> "process_request", result |-> "DoesNotExist"]
            /\ UNCHANGED assets
    /\ UNCHANGED <<nextAssetPk, requests, nextRequestPk, stock_takes, items,
                   nextStockTakePk, nextItemPk>>

\* approve: asset_request.asset is fetched on first use (the view ends with an
\* error when the asset is gone), assigned to the requester, set in_use and
\* saved; the fetch and the save are taken as one step
ProcessRequestSaveAsset(p) ==
    /\ proc[p].pc = "pr_save_asset"
    /\ LET a == proc[p].asset_request.asset IN
       IF a \in DOMAIN assets
       THEN /\ assets' = [assets EXCEPT ![a].assigned_to = proc[p].asset_request.user,
                                        ![a].status = "in_use"]
            /\ proc' = [proc EXCEPT ![p].pc = "pr_save_request"]
            /\ UNCHANGED response
       ELSE /\ proc' = [proc EXCEPT ![p] = Idle]
            /\ response' = [op |-> "process_request", result |-> "DoesNotExist"]
            /\ UNCHANGED assets
    /\ UNCHANGED <<nextAssetPk, requests, nextRequestPk, stock_takes, items,
                   nextStockTakePk, nextItemPk>>

ProcessRequestSaveNoDate(p, now) ==
    /\ proc[p].pc = "pr_save_request"
    /\ requests' = Upsert(requests, proc[p].request_id, proc[p].asset_request)
    /\ response' = [op |-> "process_request", result |-> "success"]
    /\ proc' = [proc EXCEPT ![p] = Idle]
    /\ UNCHANGED <<assets, nextAssetPk, nextRequestPk, stock_takes, items,
                   nextStockTakePk, nextItemPk>>

\* asset_request.approval_date = timezone.now(); asset_request.save(); the row
\* references its asset, which must exist
ProcessRequestSave(p, now) ==
    /\ proc[p].pc = "pr_save_request"
    /\ IF proc[p].asset_request.asset \in DOMAIN assets
       THEN /\ requests' = Upsert(requests, proc[p].request_id,
                                  [proc[p].asset_request EXCEPT !.approval_date = At(now)])
            /\ response' = [op |-> "process_request", result |-> "success"]
       ELSE /\ response' = [op |-> "process_request", result |-> "IntegrityError"]
            /\ UNCHANGED requests
    /\ proc' = [proc EXCEPT ![p] = Idle]
    /\ UNCHANGED <<assets, nextAssetPk, nextRequestPk, stock_takes, items,
                   nextStockTakePk, nextItemPk>>

ClearRequestHistoryAll ==
    /\ requests' = <<>>
    /\ response' = [op |-> "clear_request_history", result |-> "success"]
    /\ UNCHANGED <<assets, nextAssetPk, nextRequestPk, stock_takes, items, nextStockTakePk,
                   nextItemPk, proc>>

\* clear_request_history, POST: AssetRequest.objects.filter(approved__isnull=False).delete()
ClearRequestHistory ==
    /\ requests' = Without(requests, {r \in DOMAIN requests : requests[r].approved # None})
    /\ response' = [op |-> "clear_request_history", result |-> "success"]
    /\ UNCHANGED <<assets, nextAssetPk, nextRequestPk, stock_takes, items, nextStockTakePk,
                   nextItemPk, proc>>

----------------------------------------------------------------------------
(* reports, download_report *)

RECURSIVE GCD(_, _)
GCD(a, b) == IF b = 0 THEN a ELSE GCD(b, a % b)

\* the number n / d, d > 0, in lowest terms
Fraction(n, d) == [num |-> n \div GCD(n, d), den |-> d \div GCD(n, d)]

\* the queryset after `if department: ... if category: ... if status: ...`: a
\* filter applies when its GET parameter is given
FilterAssets(store, department, category, status) ==
    {pk \in DOMAIN store :
        /\ department # None => store[pk].department = department
        /\ category # None => store[pk].category = category
        /\ status # None => store[pk].status = status}

UtilizationRateUnguarded(store, S) ==
    LET total_assets == Cardinality(S)
        in_use == Cardinality({pk \in S : store[pk].status = "in_use"})
    IN  IF total_assets = 0
        THEN [ok |-> FALSE, value |-> [num |-> 0, den |-> 0]]
        ELSE LET q == Fraction(in_use, total_assets) IN
             [ok |-> TRUE, value |-> Fraction(q.num * 100, q.den)]

\* (assets.filter(status='in_use').count() / total_assets * 100)
\*     if total_assets > 0 else 0
\* over the rows S of store; a division by zero would raise (ok = FALSE)
UtilizationRate(store, S) ==
    LET total_assets == Cardinality(S)
        in_use == Cardinality({pk \in S : store[pk].status = "in_use"})
    IN  IF total_assets > 0
        THEN LET q == Fraction(in_use, total_assets) IN
             [ok |-> TRUE, value |-> Fraction(q.num * 100, q.den)]
        ELSE [ok |-> TRUE, value |-> Fraction(0, 1)]

\* what reports and download_report answer for a computed rate
ReportResponse(op, department, category, status, rate) ==
    [op |-> op, result |-> IF rate.ok THEN "rendered" ELSE "ZeroDivisionError",
     department |-> department, category |-> category, status |-> status,
     utilization_rate |-> rate.value]

\* reports, GET with the filters department, category and status
Reports(department, category, status) ==
    /\ response' = ReportResponse("reports", department, category, status,
                      UtilizationRate(assets,
                          FilterAssets(assets, department, category, status)))
    /\ UNCHANGED <<assets, nextAssetPk, requests, nextRequestPk, stock_takes, items,
                   nextStockTakePk, nextItemPk, proc>>

\* download_report, GET with the filters department, category and status
DownloadReport(department, category, status) ==
    /\ response' = ReportResponse("download_report", department, category, status,
                      UtilizationRate(assets,
                          FilterAssets(assets, department, category, status)))
    /\ UNCHANGED <<assets, nextAssetPk, requests, nextRequestPk, stock_takes, items,
                   nextStockTakePk, nextItemPk, proc>>

----------------------------------------------------------------------------
(* Stock-take reconciliation *)

StockTakeStatuses == {"in_progress", "completed", "discrepancy"}

\* a new StockTake row: status starts in_progress
NewStockTake(d) == [department |-> d, status |-> "in_progress"]

\* a new StockTakeItem row: actual_quantity starts 0
NewStockTakeItem(st, a, expected) ==
    [stock_take |-> st, asset |-> a, expected_quantity |-> expected,
     actual_quantity |-> 0]

\* stock_take.items.all()
ItemsOf(table, st) == {i \in DOMAIN table : table[i].stock_take = st}

RECURSIVE CreateItems(_, _, _, _)
\* for asset in assets: StockTakeItem.objects.create(..., expected_quantity=1)
CreateItems(table, st, todo, pk) ==
    IF todo = {} THEN table
    ELSE CreateItems(Upsert(table, pk, NewStockTakeItem(st, Max(todo), 1)),
                     st, todo \ {Max(todo)}, pk + 1)

StockTakeCreateAllAssets(d) ==
    /\ d \in Departments
    /\ nextStockTakePk <= MaxStockTakes
    /\ stock_takes' = Upsert(stock_takes, nextStockTakePk, NewStockTake(d))
    /\ items' = CreateItems(items, nextStockTakePk, DOMAIN assets, nextItemPk)
    /\ nextItemPk' = nextItemPk + Cardinality(DOMAIN assets)
    /\ nextStockTakePk' = nextStockTakePk + 1
    /\ response' = [op |-> "stock_take_create", result |-> "success",
                    pk |-> nextStockTakePk]
    /\ UNCHANGED <<assets, nextAssetPk, requests, nextRequestPk, proc>>

\* stock_take_create, POST: the stock take and one item per asset of the
\* department, in one transaction
StockTakeCreate(d) ==
    /\ d \in Departments
    /\ nextStockTakePk <= MaxStockTakes
    /\ LET todo == {pk \in DOMAIN assets : assets[pk].department = d} IN
       /\ stock_takes' = Upsert(stock_takes, nextStockTakePk, NewStockTake(d))
       /\ items' = CreateItems(items, nextStockTakePk, todo, nextItemPk)
       /\ nextItemPk' = nextItemPk + Cardinality(todo)
    /\ nextStockTakePk' = nextStockTakePk + 1
    /\ response' = [op |-> "stock_take_create", result |-> "success",
                    pk |-> nextStockTakePk]
    /\ UNCHANGED <<assets, nextAssetPk, requests, nextRequestPk, proc>>

\* stock_take_create, POST naming no department: the exception is caught and the
\* transaction leaves nothing
StockTakeCreateError(d) ==
    /\ d \notin Departments
    /\ response' = [op |-> "stock_take_create", result |-> "error"]
    /\ UNCHANGED <<assets, nextAssetPk, requests, nextRequestPk, stock_takes, items,
                   nextStockTakePk, nextItemPk, proc>>

\* stock_take_create, POST: an exception inside the loop that creates the items
\* (the stock take and some of the items are written by then) leaves
\* transaction.atomic(), which rolls the writes back; the error is reported
StockTakeCreateFail(d) ==
    /\ d \in Departments
    /\ \E pk \in DOMAIN assets : assets[pk].department = d
    /\ response' = [op |-> "stock_take_create", result |-> "error"]
    /\ UNCHANGED <<assets, nextAssetPk, requests, nextRequestPk, stock_takes, items,
                   nextStockTakePk, nextItemPk, proc>>

DeriveStatusZeroUncounted(rows) ==
    IF \E i \in DOMAIN rows : rows[i].actual_quantity = 0 THEN "in_progress"
    ELSE IF \E i \in DOMAIN rows : rows[i].actual_quantity # rows[i].expected_quantity
    THEN "discrepancy"
    ELSE "completed"

DeriveStatusNoDiscrepancy(rows) ==
    IF \A i \in DOMAIN rows : rows[i].actual_quantity # 0
    THEN "completed" ELSE "in_progress"

\* the status stock_take_detail derives from the items after a count: the loop
\* stops at the first item whose quantities differ, and an item of quantity 0
\* only clears all_completed
DeriveStatus(rows) ==
    LET has_discrepancy ==
            \E i \in DOMAIN rows : rows[i].actual_quantity # rows[i].expected_quantity
        all_completed ==
            /\ ~has_discrepancy
            /\ \A i \in DOMAIN rows : rows[i].actual_quantity # 0
    IN  IF has_discrepancy THEN "discrepancy"
        ELSE IF all_completed THEN "completed"
        ELSE "in_progress"

\* the rows of table whose pks are in S
Rows(table, S) == [i \in S |-> table[i]]

StockTakeCountKeepsStatus(st, post) ==
    /\ st \in DOMAIN stock_takes
    /\ items' = [i \in DOMAIN items |->
                    IF i \in DOMAIN post
                    THEN [items[i] EXCEPT !.actual_quantity = post[i]]
                    ELSE items[i]]
    /\ response' = [op |-> "stock_take_detail", result |-> "success", pk |-> st]
    /\ UNCHANGED <<assets, nextAssetPk, requests, nextRequestPk, stock_takes,
                   nextStockTakePk, nextItemPk, proc>>

\* stock_take_detail, POST: post[i] is int(request.POST.get(f'quantity_{i}', 0))
\* for each item i of the stock take; the status is derived from the items as
\* they are after the count and saved
StockTakeCount(st, post) ==
    /\ st \in DOMAIN stock_takes
    /\ items' = [i \in DOMAIN items |->
                    IF i \in DOMAIN post
                    THEN [items[i] EXCEPT !.actual_quantity = post[i]]
                    ELSE items[i]]
    /\ stock_takes' = [stock_takes EXCEPT
                          ![st].status = DeriveStatus(Rows(items', DOMAIN post))]
    /\ response' = [op |-> "stock_take_detail", result |-> "success", pk |-> st]
    /\ UNCHANGED <<assets, nextAssetPk, requests, nextRequestPk, nextStockTakePk,
                   nextItemPk, proc>>

\* stock_take_detail, POST with a quantity that is no integer: int() raises, the
\* transaction is rolled back and the error reported
StockTakeCountError(st) ==
    /\ st \in DOMAIN stock_takes
    /\ ItemsOf(items, st) # {}
    /\ response' = [op |-> "stock_take_detail", result |-> "error", pk |-> st]
    /\ UNCHANGED <<assets, nextAssetPk, requests, nextRequestPk, stock_takes, items,
                   nextStockTakePk, nextItemPk, proc>>

\* stock_take_update, POST: the posted status is stored
StockTakeUpdate(st, status) ==
    /\ st \in DOMAIN stock_takes
    /\ stock_takes' = [stock_takes EXCEPT ![st].status = status]
    /\ response' = [op |-> "stock_take_update", result |-> "success", pk |-> st]
    /\ UNCHANGED <<assets, nextAssetPk, requests, nextRequestPk, items, nextStockTakePk,
                   nextItemPk, proc>>

----------------------------------------------------------------------------
(* Specifications *)

RECURSIVE CreatedStore(_, _)
\* the Asset table after asset_create ran once, alone, for each (department,
\* category) of todo, on the table store
CreatedStore(store, todo) ==
    IF todo = <<>> THEN store
    ELSE LET d == Head(todo)[1]
             c == Head(todo)[2]
             n == FirstFree(store, d, c, NewNumber(store, d, c))
             pk == Cardinality(DOMAIN store) + 1
         IN  CreatedStore(
                 Upsert(store, pk, [NewAsset(d, c, "available", None) EXCEPT
                                       !.asset_no = ViewAssetNo(d, c, n)]),
                 Tail(todo))

\* everything but the Asset table empty, every worker idle
InitRest ==
    /\ requests = <<>>
    /\ nextRequestPk = 1
    /\ stock_takes = <<>>
    /\ items = <<>>
    /\ nextStockTakePk = 1
    /\ nextItemPk = 1
    /\ proc = [p \in Procs |-> Idle]
    /\ response = [op |-> "none", result |-> "none"]

\* an empty database
Init ==
    /\ assets = <<>>
    /\ nextAssetPk = 1
    /\ InitRest

\* the asset store: creation, update and deletion of assets by concurrent workers
\* and the management command
SpecDepartments == {"Finance", "Fintech"}
SpecCategories == {"technology"}

Next ==
    \/ \E d \in SpecDepartments \cup {None}, c \in SpecCategories \cup {None} :
          AssetCreateInvalid(d, c)
    \/ \E p \in Procs, d \in SpecDepartments, c \in SpecCategories :
          AssetCreateBegin(p, d, c, "available", None)
    \/ \E p \in Procs : AssetCreateVerify(p)
    \/ \E p \in Procs : AssetCreateSave(p)
    \/ \E p \in Procs, pk \in DOMAIN assets : AssetUpdateLoad(p, pk)
    \/ \E p \in Procs, d \in SpecDepartments, c \in SpecCategories :
          AssetUpdateSave(p, d, c, "available", None)
    \/ \E pk \in DOMAIN assets : AssetDelete(pk)
    \/ UpdateAssetNumbers

Spec == Init /\ [][Next]_vars

\* the number generator applied to the stores that creation, update and deletion
\* of assets build
GenDepartments == {"Finance", "IT"}
GenCategories == {"technology"}

NextGen ==
    \/ \E d \in GenDepartments \cup {None}, c \in GenCategories \cup {None} :
          AssetCreateInvalid(d, c)
    \/ \E d \in GenDepartments, c \in GenCategories :
          AssetCreate(d, c, "available", None)
    \/ \E pk \in DOMAIN assets, d \in GenDepartments, c \in GenCategories :
          AssetUpdate(pk, d, c, "available", None)
    \/ \E pk \in DOMAIN assets : AssetDelete(pk)
    \/ \E d \in GenDepartments \cup {None}, c \in GenCategories \cup {None} :
          GenerateAndSave(d, c)

SpecGen == Init /\ [][NextGen]_vars

\* the request workflow on a store of one asset, with two concurrent workers
InitRequests ==
    /\ assets = CreatedStore(<<>>, << <<"Finance", "technology">> >>)
    /\ nextAssetPk = 2
    /\ InitRest

NextRequests ==
    \/ \E user \in Users, pk \in DOMAIN assets : RequestAsset(user, pk)
    \/ \E p \in Procs, request_id \in DOMAIN requests, action \in Actions :
          ProcessRequestLoad(p, request_id, action)
    \/ \E p \in Procs : ProcessRequestSaveAsset(p)
    \/ \E p \in Procs, now \in Times : ProcessRequestSave(p, now)
    \/ ClearRequestHistory
    \/ \E pk \in DOMAIN assets : AssetDelete(pk)

SpecRequests == InitRequests /\ [][NextRequests]_vars

\* the request workflow beside a stock take of the asset's department
InitClear ==
    /\ assets = CreatedStore(<<>>, << <<"Finance", "technology">> >>)
    /\ nextAssetPk = 2
    /\ requests = <<>>
    /\ nextRequestPk = 1
    /\ stock_takes = Upsert(<<>>, 1, NewStockTake("Finance"))
    /\ items = CreateItems(<<>>, 1, {1}, 1)
    /\ nextStockTakePk = 2
    /\ nextItemPk = 2
    /\ proc = [p \in Procs |-> Idle]
    /\ response = [op |-> "none", result |-> "none"]

SpecClear == InitClear /\ [][NextRequests]_vars

\* stock takes over a store that starts with two assets of one department
InitStock ==
    /\ assets = CreatedStore(<<>>, << <<"Finance", "technology">>,
                                      <<"Finance", "technology">> >>)
    /\ nextAssetPk = 3
    /\ InitRest

NextStock ==
    \/ \E d \in GenDepartments : StockTakeCreate(d)
    \/ StockTakeCreateError(None)
    \/ \E d \in GenDepartments : StockTakeCreateFail(d)
    \/ \E st \in DOMAIN stock_takes :
          \E post \in [ItemsOf(items, st) -> 0..MaxQuantity] : StockTakeCount(st, post)
    \/ \E st \in DOMAIN stock_takes : StockTakeCountError(st)
    \/ \E st \in DOMAIN stock_takes, status \in StockTakeStatuses :
          StockTakeUpdate(st, status)
    \/ \E pk \in DOMAIN assets, d \in GenDepartments :
          AssetUpdate(pk, d, "technology", "available", None)
    \/ \E pk \in DOMAIN assets : AssetDelete(pk)

SpecStock == InitStock /\ [][NextStock]_vars

\* the reports over the stores that creation and deletion of assets of either
\* status build
ReportStatuses == {"available", "in_use"}

NextReports ==
    \/ \E d \in GenDepartments, c \in GenCategories, s \in ReportStatuses :
          AssetCreate(d, c, s, None)
    \/ \E pk \in DOMAIN assets : AssetDelete(pk)
    \/ \E d \in GenDepartments \cup {None}, c \in GenCategories \cup {None},
          s \in ReportStatuses \cup {None} : Reports(d, c, s)
    \/ \E d \in GenDepartments \cup {None}, c \in GenCategories \cup {None},
          s \in ReportStatuses \cup {None} : DownloadReport(d, c, s)

SpecReports == Init /\ [][NextReports]_vars

\* the life of one asset: its creation in an empty store, updates by concurrent
\* workers, approvals of requests for it, stock takes and the management command
NextLife ==
    \/ /\ DOMAIN assets = {}
       /\ \E d \in GenDepartments, c \in GenCategories :
             AssetCreate(d, c, "available", None)
    \/ \E p \in Procs, pk \in DOMAIN assets : AssetUpdateLoad(p, pk)
    \/ \E p \in Procs, d \in GenDepartments, c \in GenCategories :
          AssetUpdateSave(p, d, c, "available", None)
    \/ \E pk \in DOMAIN assets : RequestAsset("alice", pk)
    \/ \E p \in Procs, request_id \in DOMAIN requests :
          ProcessRequestLoad(p, request_id, "approve")
    \/ \E p \in Procs : ProcessRequestSaveAsset(p)
    \/ \E p \in Procs : ProcessRequestSave(p, 1)
    \/ \E d \in GenDepartments : StockTakeCreate(d)
    \/ \E st \in DOMAIN stock_takes :
          \E post \in [ItemsOf(items, st) -> 0..MaxQuantity] : StockTakeCount(st, post)
    \/ \E st \in DOMAIN stock_takes, status \in StockTakeStatuses :
          StockTakeUpdate(st, status)
    \/ UpdateAssetNumbers

SpecLife == Init /\ [][NextLife]_vars

\* the stores that asset_create, asset_update and asset_delete build, one
\* request at a time
NextMoves ==
    \/ \E d \in GenDepartments, c \in GenCategories :
          AssetCreate(d, c, "available", None)
    \/ \E pk \in DOMAIN assets, d \in GenDepartments, c \in GenCategories :
          AssetUpdate(pk, d, c, "available", None)
    \/ \E pk \in DOMAIN assets : AssetDelete(pk)

SpecMoves == Init /\ [][NextMoves]_vars

\* no request is being served
AllIdle == \A p \in Procs : proc[p].pc = "idle"

\* the asset store with one request served at a time: an asset_create runs
\* from its first query to its save with nothing else in between, and a worker
\* inside the view goes on to its next step
NextSeq ==
    \/ /\ AllIdle
       /\ \E p \in Procs, d \in SpecDepartments, c \in SpecCategories :
             AssetCreateBegin(p, d, c, "available", None)
    \/ \E p \in Procs : AssetCreateVerify(p)
    \/ \E p \in Procs : AssetCreateSave(p)
    \/ /\ AllIdle
       /\ \E pk \in DOMAIN assets, d \in SpecDepartments, c \in SpecCategories :
             AssetUpdate(pk, d, c, "available", None)
    \/ /\ AllIdle
       /\ \E pk \in DOMAIN assets : AssetDelete(pk)

SpecSeq ==
    /\ Init
    /\ [][NextSeq]_vars
    /\ \A p \in Procs : WF_vars(AssetCreateVerify(p)) /\ WF_vars(AssetCreateSave(p))

----------------------------------------------------------------------------
(* Properties *)

\* C1: in every reachable state of the asset store (asset_create, asset_update
\* and asset_delete by interleaved workers, and update_asset_numbers), no two
\* stored assets have the same asset_no.
C1_UniqueAssetNo ==
    \A a, b \in DOMAIN assets : a # b => assets[a].asset_no # assets[b].asset_no

\* two assets are stored and a creation that raced for a number of one of them
\* was refused by the unique constraint
C1_Witness ==
    /\ response.op = "asset_create"
    /\ response.result = "IntegrityError"
    /\ Cardinality(DOMAIN assets) >= 2

\* C2: a user who has a pending request for an asset cannot submit another one
\* for it, so no two pending requests share their asset and their user.
C2_NoDuplicatePending ==
    \A r1, r2 \in DOMAIN requests :
        (/\ r1 # r2
         /\ requests[r1].asset = requests[r2].asset
         /\ requests[r1].user = requests[r2].user)
        => ~(requests[r1].approved = None /\ requests[r2].approved = None)

\* C3: a decision is terminal: a process_request call on a request that is
\* already approved or rejected (it loaded the request with its approval_date)
\* changes neither the approved value nor the approval_date of the stored request.
C3_DecisionTerminal ==
    [][\A p \in Procs :
          (/\ proc[p].pc = "pr_save_request"
           /\ proc'[p].pc = "idle"
           /\ proc[p].asset_request.approval_date # NoDate
           /\ proc[p].request_id \in DOMAIN requests \cap DOMAIN requests'
           /\ requests[proc[p].request_id].approved # None)
          => /\ requests'[proc[p].request_id].approved
                   = requests[proc[p].request_id].approved
             /\ requests'[proc[p].request_id].approval_date
                   = requests[proc[p].request_id].approval_date]_vars

\* C4: approval is atomic: in no state has an approval written its asset
\* (assigned to the requester, in_use) while the stored request is still pending.
C4_ApprovalAtomic ==
    \A p \in Procs :
        (/\ proc[p].pc = "pr_save_request"
         /\ proc[p].action = "approve"
         /\ proc[p].request_id \in DOMAIN requests)
        => requests[proc[p].request_id].approved # None

\* the steps of worker p that belong to a decision whose action is not approve
C5_RejectStep(p) ==
    /\ proc'[p] # proc[p]
    /\ \/ proc[p].pc \in {"pr_save_asset", "pr_save_request"} /\ proc[p].action # "approve"
       \/ proc'[p].pc \in {"pr_save_asset", "pr_save_request"} /\ proc'[p].action # "approve"

\* C5: deciding a pending request with an action other than approve stores
\* approved = False and an approval_date on it, and changes no asset and no
\* other request.
C5_RejectFrame ==
    [][\A p \in Procs :
          /\ C5_RejectStep(p) =>
                /\ assets' = assets
                /\ \A r \in DOMAIN requests :
                      (proc[p].pc = "idle" \/ r # proc[p].request_id)
                      => r \in DOMAIN requests' /\ requests'[r] = requests[r]
          /\ (/\ C5_RejectStep(p)
              /\ proc'[p].pc = "idle"
              /\ proc[p].request_id \in DOMAIN requests
              /\ requests[proc[p].request_id].approved = None)
             => /\ DOMAIN requests' = DOMAIN requests
                /\ requests'[proc[p].request_id].approved = False
                /\ requests'[proc[p].request_id].approval_date # NoDate
                /\ requests'[proc[p].request_id].asset = requests[proc[p].request_id].asset
                /\ requests'[proc[p].request_id].user = requests[proc[p].request_id].user]_vars

\* a request stands rejected with its date beside a pending one, and the asset is
\* as it was created
C5_Witness ==
    /\ response.op = "process_request"
    /\ \E r1, r2 \in DOMAIN requests :
          /\ requests[r1].approved = False
          /\ requests[r1].approval_date # NoDate
          /\ requests[r2].approved = None
          /\ requests[r1].asset \in DOMAIN assets
          /\ assets[requests[r1].asset].assigned_to = None
          /\ assets[requests[r1].asset].status = "available"

\* C6: for every stored request, approved is unset exactly when approval_date is
\* unset.
C6_PendingIffNoDate ==
    \A r \in DOMAIN requests :
        (requests[r].approved = None) <=> (requests[r].approval_date = NoDate)

\* an approved request with its date is stored beside a pending one
C6_Witness ==
    \E r1, r2 \in DOMAIN requests :
        /\ requests[r1].approved = True
        /\ requests[r1].approval_date # NoDate
        /\ requests[r2].approved = None
        /\ requests[r2].approval_date = NoDate

\* the items of stock take st in the table
C_ItemRows(table, st) == {table[i] : i \in ItemsOf(table, st)}

\* C7: after a count submission the status of the stock take is completed when
\* every item's actual_quantity equals its expected_quantity of 1, discrepancy
\* when some item's quantities differ, and in_progress when none differ but some
\* item has actual_quantity 0.
C7_StatusAfterCount ==
    [][(response'.op = "stock_take_detail" /\ response'.result = "success") =>
          LET rows == C_ItemRows(items', response'.pk)
              status == stock_takes'[response'.pk].status
          IN  /\ (\A r \in rows : r.actual_quantity = r.expected_quantity
                                  /\ r.expected_quantity = 1)
                    => status = "completed"
              /\ (\E r \in rows : r.actual_quantity # r.expected_quantity)
                    => status = "discrepancy"
              /\ (/\ \A r \in rows : r.actual_quantity = r.expected_quantity
                  /\ \E r \in rows : r.actual_quantity = 0)
                    => status = "in_progress"]_vars

\* a count of two items found both and the stock take is completed
C7_Witness ==
    /\ response.op = "stock_take_detail"
    /\ response.result = "success"
    /\ stock_takes[response.pk].status = "completed"
    /\ Cardinality(ItemsOf(items, response.pk)) = 2
    /\ \A i \in ItemsOf(items, response.pk) : items[i].actual_quantity = 1

\* the status-derivation rule, as a function of the items' quantities
C8_Rule(rows) ==
    IF \E r \in rows : r.actual_quantity # r.expected_quantity THEN "discrepancy"
    ELSE IF \A r \in rows : r.actual_quantity # 0 THEN "completed"
    ELSE "in_progress"

\* C8 as claimed: in every reachable state the stored status of every stock take
\* is the value the rule gives for its items.
C8_StatusAlwaysDerived ==
    \A st \in DOMAIN stock_takes :
        stock_takes[st].status = C8_Rule(C_ItemRows(items, st))

\* C8 as amended: a successful count submission leaves the stored status equal to
\* the rule's value for the items as counted; a new stock take starts in_progress;
\* and the status of a stock take changes only in a count submission or a
\* stock_take_update of that stock take.
C8_StatusDerivedAtCount ==
    [][/\ (response'.op = "stock_take_detail" /\ response'.result = "success") =>
             stock_takes'[response'.pk].status = C8_Rule(C_ItemRows(items', response'.pk))
       /\ \A st \in DOMAIN stock_takes' :
             IF st \in DOMAIN stock_takes
             THEN stock_takes'[st].status # stock_takes[st].status =>
                      /\ response'.op \in {"stock_take_detail", "stock_take_update"}
                      /\ response'.result = "success"
                      /\ response'.pk = st
             ELSE stock_takes'[st].status = "in_progress"]_vars

\* a count that missed one of two items left the stock take in discrepancy
C8_Witness ==
    /\ response.op = "stock_take_detail"
    /\ response.result = "success"
    /\ stock_takes[response.pk].status = "discrepancy"
    /\ \E i, j \in ItemsOf(items, response.pk) :
          items[i].actual_quantity = 1 /\ items[j].actual_quantity = 0

\* the number an asset_no ends with
C9_Suffix(asset_no) == DigitsValue(SplitLast(asset_no))

\* C9: when generate_asset_number returned a number for (D, C) and is called
\* again for (D, C) with nothing written in between but the asset that got the
\* first number, it returns another number, whose suffix is the first one's
\* plus 1.
C9_SequentialNumbers ==
    [][(/\ response.op = "generate_asset_number"
        /\ response.result = "number"
        /\ response'.op = "generate_asset_number"
        /\ response' # response
        /\ response'.department = response.department
        /\ response'.category = response.category)
       => /\ response'.result = "number"
          /\ response'.asset_no # response.asset_no
          /\ C9_Suffix(response'.asset_no) = C9_Suffix(response.asset_no) + 1]_vars

\* C10: generate_asset_number and asset_create for an asset without department
\* or without category end with the missing-attribute error and leave the Asset
\* table as it was.
C10_MissingAttribute ==
    [][(/\ response'.op \in {"generate_asset_number", "asset_create"}
        /\ (response'.department = None \/ response'.category = None))
       => /\ assets' = assets
          /\ nextAssetPk' = nextAssetPk
          /\ response'.result =
                IF response'.op = "asset_create"
                THEN "required_field_error"
                ELSE "ValueError: department and category are required"]_vars

\* the generator refused an asset without category while assets are stored
C10_Witness ==
    /\ response.op = "generate_asset_number"
    /\ response.department # None
    /\ response.category = None
    /\ response.result = "ValueError: department and category are required"
    /\ DOMAIN assets # {}

\* C11: when the candidate of generate_asset_number is taken the generator goes
\* on to the next number, so it returns a number no stored asset holds unless
\* the max_attempts candidates that follow the last asset's number are all
\* taken, and only then ends with the error.
C11_RetryIncrements ==
    [][(/\ response'.op = "generate_asset_number"
        /\ response'.department # None
        /\ response'.category # None)
       => LET d == response'.department
              c == response'.category
              n == NewNumber(assets, d, c)
          IN  IF \A k \in 0..(max_attempts - 1) :
                     AssetNoExists(assets, ModelAssetNo(d, c, n + k))
              THEN response'.result # "number"
              ELSE /\ response'.result = "number"
                   /\ ~AssetNoExists(assets, response'.asset_no)]_vars


\* C12: clear_request_history deletes the requests whose approved value is True
\* or False and no others, and changes no pending request, no asset, no stock
\* take and no stock-take item; only pending requests remain after it.
C12_ClearFrame ==
    [][(response'.op = "clear_request_history" /\ proc' = proc)
       => /\ DOMAIN requests' =
                DOMAIN requests \ {r \in DOMAIN requests :
                                      requests[r].approved \in {True, False}}
          /\ \A r \in DOMAIN requests' :
                requests'[r] = requests[r] /\ requests'[r].approved = None
          /\ assets' = assets
          /\ stock_takes' = stock_takes
          /\ items' = items]_vars

\* the history was cleared and a pending request is still stored, beside the
\* asset and the stock take with its item
C12_Witness ==
    /\ response.op = "clear_request_history"
    /\ nextRequestPk = 3
    /\ Cardinality(DOMAIN requests) = 1
    /\ \A r \in DOMAIN requests : requests[r].approved = None
    /\ DOMAIN assets # {}
    /\ DOMAIN stock_takes # {}
    /\ DOMAIN items # {}


\* C13: a successful stock_take_create stores a new stock take of the posted
\* department D with exactly one item for each asset whose department is D at
\* that moment and none for any other asset, each item with expected_quantity 1
\* and actual_quantity 0, and leaves the older items alone; a creation that
\* fails leaves no stock take and no item.
C13_CreationSnapshot ==
    [][/\ (response'.op = "stock_take_create" /\ response'.result = "success") =>
             LET st == response'.pk
                 new == ItemsOf(items', st)
             IN  /\ st \notin DOMAIN stock_takes
                 /\ DOMAIN stock_takes' = DOMAIN stock_takes \cup {st}
                 /\ \A a \in DOMAIN assets :
                       Cardinality({i \in new : items'[i].asset = a}) =
                          IF assets[a].department = stock_takes'[st].department
                          THEN 1 ELSE 0
                 /\ \A i \in new :
                       /\ items'[i].asset \in DOMAIN assets
                       /\ items'[i].expected_quantity = 1
                       /\ items'[i].actual_quantity = 0
                 /\ DOMAIN items' = DOMAIN items \cup new
                 /\ \A i \in DOMAIN items : items'[i] = items[i]
       /\ (response'.op = "stock_take_create" /\ response'.result = "error") =>
             /\ stock_takes' = stock_takes
             /\ items' = items]_vars

\* a stock take of Finance was created while one of the two assets is in IT: it
\* has one item, for the Finance asset
C13_Witness ==
    /\ response.op = "stock_take_create"
    /\ response.result = "success"
    /\ stock_takes[response.pk].department = "Finance"
    /\ \E a, b \in DOMAIN assets :
          /\ assets[a].department = "Finance"
          /\ assets[b].department = "IT"
          /\ \E i \in DOMAIN items :
                /\ ItemsOf(items, response.pk) = {i}
                /\ items[i].asset = a
                /\ items[i].expected_quantity = 1
                /\ items[i].actual_quantity = 0


\* C14: the utilization rate that reports and download_report compute is
\* count(status = in_use) / total * 100 over the filtered assets when there are
\* any, and 0 when there are none; no division error is raised.
C14_UtilizationRate ==
    response.op \in {"reports", "download_report"} =>
        LET S == {pk \in DOMAIN assets :
                     /\ response.department = None
                           \/ assets[pk].department = response.department
                     /\ response.category = None
                           \/ assets[pk].category = response.category
                     /\ response.status = None
                           \/ assets[pk].status = response.status}
            total == Cardinality(S)
            used == Cardinality({pk \in S : assets[pk].status = "in_use"})
            rate == response.utilization_rate
        IN  /\ response.result # "ZeroDivisionError"
            /\ rate.den > 0
            /\ IF total > 0
               THEN rate.num * total = used * 100 * rate.den
               ELSE rate.num = 0

\* one of three assets is in use: the rate is 100/3
C14_Witness ==
    /\ response.op = "reports"
    /\ response.department = None
    /\ response.category = None
    /\ response.status = None
    /\ Cardinality(DOMAIN assets) = 3
    /\ Cardinality({pk \in DOMAIN assets : assets[pk].status = "in_use"}) = 1
    /\ response.utilization_rate = [num |-> 100, den |-> 3]


\* C15: an asset gets its asset_no when it is created (a new row never keeps the
\* placeholder default), and no later step changes the asset_no of a stored
\* asset: not asset_update, also when it changes the department or the category,
\* not the approval of a request, not a stock-take operation.
C15_AssetNoImmutable ==
    [][/\ \A pk \in DOMAIN assets \cap DOMAIN assets' :
             assets'[pk].asset_no = assets[pk].asset_no
       /\ \A pk \in DOMAIN assets' \ DOMAIN assets :
             assets'[pk].asset_no # DefaultAssetNo]_vars

\* an asset created in Finance is in IT after an asset_update, is assigned by an
\* approval and has an item in a stock take, still under its Finance number
C15_Witness ==
    \E pk \in DOMAIN assets :
        /\ assets[pk].asset_no = ViewAssetNo("Finance", "technology", 1)
        /\ assets[pk].department = "IT"
        /\ assets[pk].status = "in_use"
        /\ assets[pk].assigned_to = "alice"
        /\ \E i \in DOMAIN items : items[i].asset = pk /\ items[i].actual_quantity = 1


\* C16: when an asset_create reaches its save with a number that a concurrent
\* asset_create has committed in the meantime, the save is refused and creates
\* no asset; otherwise it commits one new asset under its number; either way no
\* two stored assets end with the same asset_no.
C16_ConcurrentCreate ==
    [][\A p \in Procs :
          (proc[p].pc = "ac_save" /\ proc'[p].pc = "idle") =>
             LET no == proc[p].asset.asset_no IN
             /\ IF \E q \in DOMAIN assets : assets[q].asset_no = no
                THEN /\ assets' = assets
                     /\ response'.result = "IntegrityError"
                ELSE /\ DOMAIN assets' = DOMAIN assets \cup {nextAssetPk}
                     /\ nextAssetPk \notin DOMAIN assets
                     /\ assets'[nextAssetPk].asset_no = no
                     /\ \A q \in DOMAIN assets : assets'[q] = assets[q]
             /\ \A a, b \in DOMAIN assets' :
                   a # b => assets'[a].asset_no # assets'[b].asset_no]_vars

\* two creations raced for the first number of a partition: one asset is stored
\* and the other creation ended with the constraint's error
C16_Witness ==
    /\ response.op = "asset_create"
    /\ response.result = "IntegrityError"
    /\ nextAssetPk = 2
    /\ \A p \in Procs : proc[p].pc = "idle"
    /\ \E pk \in DOMAIN assets :
          /\ DOMAIN assets = {pk}
          /\ assets[pk].department = response.department
          /\ assets[pk].category = response.category
          /\ assets[pk].asset_no = ViewAssetNo(response.department, response.category, 1)


\* C17: every approval whose asset is stored writes the asset, whoever it is
\* assigned to, as assigned to the approval's requester and in_use, without
\* error, and then stores its request as approved; assigned_to changes in no
\* other step, so after several approvals for one asset it names the requester
\* of the approval that wrote the asset last.
C17_LastWriteWins ==
    [][/\ \A p \in Procs :
             /\ (/\ proc[p].pc = "pr_save_asset"
                 /\ proc'[p] # proc[p]
                 /\ proc[p].asset_request.asset \in DOMAIN assets)
                => /\ proc'[p].pc = "pr_save_request"
                   /\ assets'[proc[p].asset_request.asset].assigned_to
                         = proc[p].asset_request.user
                   /\ assets'[proc[p].asset_request.asset].status = "in_use"
             /\ (/\ proc[p].pc = "pr_save_request"
                 /\ proc[p].action = "approve"
                 /\ proc'[p] # proc[p]
                 /\ proc[p].asset_request.asset \in DOMAIN assets)
                => /\ response'.result = "success"
                   /\ requests'[proc[p].request_id].approved = True
                   /\ requests'[proc[p].request_id].user = proc[p].asset_request.user
                   /\ assets' = assets
       /\ \A a \in DOMAIN assets \cap DOMAIN assets' :
             assets'[a].assigned_to # assets[a].assigned_to =>
                \E p \in Procs :
                   /\ proc[p].pc = "pr_save_asset"
                   /\ proc'[p] # proc[p]
                   /\ proc[p].asset_request.asset = a
                   /\ proc[p].asset_request.user = assets'[a].assigned_to]_vars

\* the requests of alice and bob for one asset are both approved, bob's first;
\* the asset is assigned to alice
C17_Witness ==
    \E r1, r2 \in DOMAIN requests :
        /\ requests[r1].asset = requests[r2].asset
        /\ requests[r1].user = "alice" /\ requests[r2].user = "bob"
        /\ requests[r1].approved = True /\ requests[r2].approved = True
        /\ requests[r1].approval_date = At(2) /\ requests[r2].approval_date = At(1)
        /\ \A p \in Procs : proc[p].pc = "idle"
        /\ requests[r1].asset \in DOMAIN assets
        /\ assets[requests[r1].asset].assigned_to = "alice"
        /\ assets[requests[r1].asset].status = "in_use"


\* C18: a uniqueness violation at the save of a new asset is retried with
\* another number, so a creation that reached its save ends with the asset
\* created, never with the constraint's error and no asset.
C18_ViolationRetried ==
    [][\A p \in Procs :
          (proc[p].pc = "ac_save" /\ proc'[p].pc = "idle") =>
             /\ response'.result = "created"
             /\ nextAssetPk \in DOMAIN assets'
             /\ assets'[nextAssetPk].department = proc[p].asset.department
             /\ assets'[nextAssetPk].category = proc[p].asset.category]_vars


\* C19: a count submission on a stock take that has an item leaves its status
\* completed or discrepancy, never in_progress, and discrepancy when an item is
\* counted as 0; the status is not monotonic: whenever such a stock take is
\* completed a count submission can make it discrepancy, and whenever it is
\* discrepancy a count submission can make it completed.
C19_NeverInProgressAfterCount ==
    /\ [][(/\ response'.op = "stock_take_detail"
           /\ response'.result = "success"
           /\ ItemsOf(items', response'.pk) # {})
          => /\ stock_takes'[response'.pk].status \in {"completed", "discrepancy"}
             /\ (\E i \in ItemsOf(items', response'.pk) : items'[i].actual_quantity = 0)
                   => stock_takes'[response'.pk].status = "discrepancy"]_vars
    /\ [](\A st \in DOMAIN stock_takes :
             ItemsOf(items, st) # {} =>
                /\ stock_takes[st].status = "completed" =>
                      ENABLED (\E post \in [ItemsOf(items, st) -> 0..MaxQuantity] :
                                  /\ StockTakeCount(st, post)
                                  /\ stock_takes'[st].status = "discrepancy")
                /\ stock_takes[st].status = "discrepancy" =>
                      ENABLED (\E post \in [ItemsOf(items, st) -> 0..MaxQuantity] :
                                  /\ StockTakeCount(st, post)
                                  /\ stock_takes'[st].status = "completed"))

\* a count that found none of the two items: every item is counted as 0 and the
\* stock take is in discrepancy
C19_Witness ==
    /\ response.op = "stock_take_detail"
    /\ response.result = "success"
    /\ Cardinality(ItemsOf(items, response.pk)) = 2
    /\ \A i \in ItemsOf(items, response.pk) : items[i].actual_quantity = 0
    /\ stock_takes[response.pk].status = "discrepancy"


\* C20: in every reachable store (every suffix has at most 4 digits), also after
\* asset_update moved assets between partitions, the last asset of a partition
\* in descending order of asset_no has the numerically greatest suffix of the
\* partition, and the candidate is that maximum plus 1.
C20_LastIsNumericMax ==
    \A d \in GenDepartments, c \in GenCategories :
        LET S == Partition(assets, d, c) IN
        (/\ S # {}
         /\ \A q \in S : Len(SplitLast(assets[q].asset_no)) <= 4)
        => /\ \A q \in S :
                 DigitsValue(SplitLast(assets[q].asset_no))
                    <= DigitsValue(SplitLast(assets[LastAsset(assets, d, c)].asset_no))
           /\ \E q \in S :
                 NewNumber(assets, d, c) = DigitsValue(SplitLast(assets[q].asset_no)) + 1
           /\ \A q \in S :
                 NewNumber(assets, d, c) > DigitsValue(SplitLast(assets[q].asset_no))


\* C21: an asset_create that runs with no other request in between ends: its
\* collision loop passes only taken numbers, at most as many as there are
\* assets, and the view reaches its end; its save then stores the new asset
\* under a number that no other stored asset holds, also when the number it
\* first computed is held by an asset of another department with the same
\* 3-letter prefix.
C21_SequentialCreate ==
    /\ [][\A p \in Procs :
             (proc[p].pc = "ac_save" /\ proc'[p].pc = "idle") =>
                /\ response'.result = "created"
                /\ DOMAIN assets' = DOMAIN assets \cup {nextAssetPk}
                /\ assets'[nextAssetPk].asset_no = proc[p].asset.asset_no
                /\ assets'[nextAssetPk].department = proc[p].asset.department
                /\ assets'[nextAssetPk].category = proc[p].asset.category
                /\ \A q \in DOMAIN assets' :
                      q # nextAssetPk =>
                         assets'[q].asset_no # assets'[nextAssetPk].asset_no]_vars
    /\ [](\A p \in Procs :
             proc[p].pc \in {"ac_verify", "ac_save"} =>
                LET d == proc[p].asset.department
                    c == proc[p].asset.category
                    first == NewNumber(assets, d, c)
                IN  /\ proc[p].new_number >= first
                    /\ proc[p].new_number <= first + Cardinality(DOMAIN assets)
                    /\ proc[p].asset.asset_no = ViewAssetNo(d, c, proc[p].new_number)
                    /\ \A n \in first..(proc[p].new_number - 1) :
                          \E q \in DOMAIN assets : assets[q].asset_no = ViewAssetNo(d, c, n))
    /\ \A p \in Procs : (proc[p].pc = "ac_verify") ~> (proc[p].pc = "idle")

\* the first asset of Fintech was created while Finance holds FIN-TEC-KOTDA-0001:
\* the loop passed that number and the asset is stored as FIN-TEC-KOTDA-0002
C21_Witness ==
    /\ response.op = "asset_create"
    /\ response.result = "created"
    /\ response.department = "Fintech"
    /\ AllIdle
    /\ \E a, b \in DOMAIN assets :
          /\ DOMAIN assets = {a, b}
          /\ assets[a].department = "Finance"
          /\ assets[a].asset_no = ViewAssetNo("Finance", "technology", 1)
          /\ assets[b].department = "Fintech"
          /\ assets[b].asset_no = ViewAssetNo("Fintech", "technology", 2)


====
